---- MODULE Spec2Model ----
(***************************************************************************)
(* State-machine model of the did-manager service:                         *)
(*   - the Identity Store (table dids) and the Job Ledger (table           *)
(*     blockchain_jobs) as the repositories update them,                   *)
(*   - DIDService.CreateDID / VerifyDID / UpdateDIDStatus,                 *)
(*   - DIDService.ProcessBlockchainQueue / processJob, run by the 30s      *)
(*     ticker and by POST /queue/process, one store or chain call a step,  *)
(*   - EthereumClient.sendTransaction (nonce, broadcast, receipt poll,     *)
(*     timeout) against the registry, and the offline mode of main in      *)
(*     which the service runs without a chain client,                      *)
(*   - the Job Ledger's GetPendingJobs and CreateDID's conflict handling   *)
(*     on their own, over tables and generator outputs drawn at large.     *)
(*   - the queue transport (NATSQueue: PublishJob, SubscribeToJobs and the *)
(*     deliveries to the subscription callback), runs over a Job Ledger    *)
(*     holding several rows, Generator.GenerateDID's DID string, and the   *)
(*     local mode of main in which the service runs without a queue,       *)
(*   - the DIDRegistry contract (registerDID, batchRegisterDIDs,           *)
(*     updateDID, revokeDID, verifyDID) and the calls EthereumClient       *)
(*     encodes for it.                                                     *)
(***************************************************************************)
EXTENDS Naturals, Integers, Sequences, FiniteSets, TLC

\* ------------------------------------------------------------------ bounds
MaxDIDs == 1
NumWorkers == 2
MaxFaults == 1
MaxJobs == 3
MaxGen == 3

\* ------------------------------------------------------- program constants
BatchLimit == 10
DefaultMaxRetries == 3

Workers == 1..NumWorkers
UserHashes == 1..MaxDIDs
NoTx == 0
NoNonce == -1

DIDStatusPending == "pending"
DIDStatusActive == "active"
DIDStatusRevoked == "revoked"
DIDStatusExpired == "expired"
DIDStatusFailed == "failed"
DIDStatuses == {DIDStatusPending, DIDStatusActive, DIDStatusRevoked, DIDStatusExpired, DIDStatusFailed}

JobStatusPending == "pending"
JobStatusProcessing == "processing"
JobStatusCompleted == "completed"
JobStatusFailed == "failed"
JobStatusRetrying == "retrying"

JobTypeRegisterDID == "register_did"
JobTypeUpdateDID == "update_did"
JobTypeRevokeDID == "revoke_did"
JobTypes == {JobTypeRegisterDID, JobTypeUpdateDID, JobTypeRevokeDID}

\* error texts processJob / sendTransaction return (fmt.Errorf wrappers)
ErrUpdateJobStatus == "failed to update job status"
ErrUnknownJobType == "unknown job type"
ErrGetNonce == "blockchain operation failed: failed to get nonce"
ErrSendTransaction == "blockchain operation failed: failed to send transaction"
ErrWaitTimeout == "blockchain operation failed: transaction wait timeout"
ErrTransactionFailed == "blockchain operation failed: transaction failed"
ErrUpdateDIDStatus == "failed to update DID status"
ErrMarkCompleted == "failed to mark job completed"
NoErr == ""

VARIABLES
    dids,       \* table dids: sequence of rows, id = index
    jobs,       \* table blockchain_jobs: sequence of rows, id = index = created_at order
    published,  \* job ids published on the BLOCKCHAIN_JOBS stream
    cresp,      \* CreateDID: what the last call returned
    txs,        \* transactions broadcast to the chain, reference = index
    registry,   \* DID strings the registry reports active
    faults,     \* store / RPC failures injected so far
    pc,         \* per ProcessBlockchainQueue run: position
    batch,      \* per run: the jobs slice still to process (head = current job)
    txRef,      \* per run: the transaction sendTransaction broadcast
    jobErr,     \* per run: the error processJob returned
    nonce,      \* per run: the nonce sendTransaction read for its transaction
    vpc,        \* VerifyDID: position
    vreq,       \* VerifyDID: request (did, user_hash)
    vrec,       \* VerifyDID: didRecord read by GetByDID
    visValid,   \* VerifyDID: isValid returned by the chain
    vresp,      \* VerifyDID: last response
    blockchain, \* DIDService.blockchain: the client main built, or nil
    reqLimit,   \* the limit GetPendingJobs is called with
    ucall,      \* the last direct Identity Store call and the error it returned
    queue,      \* DIDService.queue: the NATSQueue main built, or nil
    consumer,   \* the durable consumer "did-manager-worker" of stream BLOCKCHAIN_JOBS
    subs,       \* job types whose SubscribeToJobs call bound a handler
    stream,     \* messages stored on the stream, with the consumer's delivery state
    subres,     \* per job type: what SubscribeToJobs returned
    gen,        \* Generator.GenerateDID on its own: the key and hash drawn, the result
    didRecords,     \* DIDRegistry.didRecords: userHash -> DIDRecord
    didToUserHash,  \* DIDRegistry.didToUserHash: did -> userHash
    callres         \* DIDRegistry: the last call made and whether it reverted

vars == <<dids, jobs, published, cresp, txs, registry, faults, pc, batch, txRef, jobErr, nonce,
          vpc, vreq, vrec, visValid, vresp, blockchain, reqLimit, ucall,
          queue, consumer, subs, stream, subres, gen,
          didRecords, didToUserHash, callres>>
workerVars == <<pc, batch, txRef, jobErr, nonce>>
verifyVars == <<vpc, vreq, vrec, visValid, vresp>>
chainVars == <<txs, registry, blockchain>>
queueVars == <<queue, consumer, subs, stream, subres>>
contractVars == <<didRecords, didToUserHash, callres>>

\* ---------------------------------------------------------------- helpers
\* a store or RPC call either succeeds or (while the fault budget lasts) fails
Outcomes == IF faults < MaxFaults THEN {TRUE, FALSE} ELSE {TRUE}
Fault(ok) == IF ok THEN faults ELSE faults + 1

\* main: NewEthereumClient returned a client, or an error (the node could not
\* be reached, offline mode) and blockchainClient = nil
EthereumClient == "client"
NilClient == "nil"

NoCall == [id |-> 0, err |-> ""]

\* NewNATSQueue: the queue client, and the consumer it adds to the stream
\* (no DeliverSubject: a pull consumer)
NATSQueue == "queue"
MaxDeliver == 3
Unlimited == -1
NoConsumer == [filter |-> "", maxDeliver |-> 0, push |-> FALSE]
WorkerConsumer == [filter |-> JobTypeRegisterDID, maxDeliver |-> MaxDeliver, push |-> FALSE]
NotCalled == "not called"

\* DIDRegistry as deployed: the user hashes and DID strings it is called
\* with (bytes32(0) and the empty string among them), empty mappings
MaxRegHashes == 2
MaxRegDIDs == 2
ZeroHash == 0
EmptyDID == 0
RegHashes == ZeroHash..MaxRegHashes
RegDIDs == EmptyDID..MaxRegDIDs
NoDIDRecord == [did |-> EmptyDID, registered |-> FALSE, isActive |-> FALSE, isRevoked |-> FALSE]
NoContractCall == [op |-> <<>>, reverted |-> FALSE]
ContractDeployed ==
    /\ didRecords = [h \in RegHashes |-> NoDIDRecord]
    /\ didToUserHash = [d \in RegDIDs |-> ZeroHash]
    /\ callres = NoContractCall

\* Generator.GenerateDID has not been called on its own
NoGen == [publicKey |-> <<>>, userHash |-> <<>>, did |-> <<>>, userHashHex |-> <<>>]
NoRec == [id |-> 0, userHash |-> 0, did |-> 0, publicKey |-> <<>>, status |-> "",
          blockchainTx |-> NoTx]
NoResp == [isValid |-> FALSE, status |-> "", message |-> "", blockchainTx |-> NoTx]

\* ------------------------------------------------- Identity Generator
\* ed25519.GenerateKey: the k-th key pair drawn, both keys hex encoded
KeyPair(k) == [publicKey |-> <<"public key", k>>, privateKey |-> <<"private key", k>>]

\* GenerateDID: the DID string is composed from the user hash (and the key
\* prefix); one DID string per user hash here.
GenerateDID(h) == [did |-> h, userHash |-> h, privateKey |-> KeyPair(h).privateKey]

\* ------------------------------------------------- Identity Store (dids)
\* mutant: user_hash is not declared UNIQUE
DIDConflictOnDID(did, userHash) == \E i \in 1..Len(dids) : dids[i].did = did

\* UNIQUE(did), UNIQUE(user_hash) of table dids
DIDConflict(did, userHash) ==
    \E i \in 1..Len(dids) : dids[i].did = did \/ dids[i].userHash = userHash

\* DIDRepository.Create: INSERT; blockchain_tx stays NULL
DIDCreate(did, userHash, publicKey, status) ==
    Append(dids, [id |-> Len(dids) + 1, userHash |-> userHash, did |-> did,
                  publicKey |-> publicKey, status |-> status, blockchainTx |-> NoTx])

\* DIDRepository.GetByDID: the row with that DID string, or none
GetByDID(did) ==
    IF \E i \in 1..Len(dids) : dids[i].did = did
    THEN dids[CHOOSE i \in 1..Len(dids) : dids[i].did = did]
    ELSE NoRec

\* DIDRepository.Update: UPDATE ... SET every column from the struct WHERE id
DIDUpdate(rec) ==
    [i \in 1..Len(dids) |->
        IF i = rec.id
        THEN [dids[i] EXCEPT !.userHash = rec.userHash, !.did = rec.did,
                             !.publicKey = rec.publicKey,
                             !.status = rec.status, !.blockchainTx = rec.blockchainTx]
        ELSE dids[i]]

\* DIDRepository.UpdateStatus: UPDATE ... SET status, blockchain_tx WHERE id;
\* no row matching is not an error
DIDUpdateStatus(id, status, txHash) ==
    [i \in 1..Len(dids) |->
        IF i = id
        THEN [dids[i] EXCEPT !.status = status, !.blockchainTx = txHash]
        ELSE dids[i]]

\* DIDRepository.UpdateStatus, the error returned: that of db.Exec, nil
\* otherwise; the number of rows the UPDATE matched is not looked at
DIDUpdateStatusErr(id, ok) == IF ok THEN NoErr ELSE ErrUpdateDIDStatus

\* ------------------------------------------- Job Ledger (blockchain_jobs)
\* BlockchainJobRepository.Create: INSERT of the job struct CreateDID built
JobCreate(job) == Append(jobs, job)

\* mutant: the retry_count < max_retries condition is missing
EligibleIgnoringRetries(job) == job.status \in {JobStatusPending, JobStatusRetrying}

\* WHERE status IN (pending, retrying) AND retry_count < max_retries
Eligible(job) ==
    /\ job.status \in {JobStatusPending, JobStatusRetrying}
    /\ job.retryCount < job.maxRetries

\* BlockchainJobRepository.GetPendingJobs: the eligible rows,
\* ORDER BY created_at ASC LIMIT limit
GetPendingJobs(limit) ==
    LET all == SelectSeq(jobs, Eligible)
    IN IF Len(all) <= limit THEN all ELSE SubSeq(all, 1, limit)

\* BlockchainJobRepository.GetByID
JobByID(id) == jobs[CHOOSE i \in 1..Len(jobs) : jobs[i].id = id]
JobExists(id) == \E i \in 1..Len(jobs) : jobs[i].id = id

\* BlockchainJobRepository.UpdateStatus: SET status, error WHERE id,
\* whatever the current status is
JobUpdateStatus(id, status, errorMsg) ==
    [i \in 1..Len(jobs) |->
        IF jobs[i].id = id THEN [jobs[i] EXCEPT !.status = status, !.error = errorMsg]
        ELSE jobs[i]]

\* BlockchainJobRepository.MarkCompleted: SET status = completed, processed_at
MarkCompleted(id) ==
    [i \in 1..Len(jobs) |->
        IF jobs[i].id = id
        THEN [jobs[i] EXCEPT !.status = JobStatusCompleted, !.processedAt = TRUE]
        ELSE jobs[i]]

\* BlockchainJobRepository.IncrementRetryCount (the service never calls it)
IncrementRetryCount(id) ==
    [i \in 1..Len(jobs) |->
        IF jobs[i].id = id
        THEN [jobs[i] EXCEPT !.retryCount = @ + 1, !.status = JobStatusRetrying]
        ELSE jobs[i]]

\* ------------------------------------------------------------------ Init
Init ==
    /\ dids = <<>>
    /\ jobs = <<>>
    /\ published = {}
    /\ cresp = NoErr
    /\ txs = <<>>
    /\ registry = {}
    /\ faults = 0
    /\ pc = [w \in Workers |-> "idle"]
    /\ batch = [w \in Workers |-> <<>>]
    /\ txRef = [w \in Workers |-> NoTx]
    /\ jobErr = [w \in Workers |-> NoErr]
    /\ nonce = [w \in Workers |-> NoNonce]
    /\ vpc = "idle"
    /\ vreq = [did |-> 0, userHash |-> 0]
    /\ vrec = NoRec
    /\ visValid = FALSE
    /\ vresp = NoResp
    /\ blockchain \in {EthereumClient, NilClient}
    /\ reqLimit = BatchLimit
    /\ ucall = NoCall
    /\ queue = NATSQueue
    /\ consumer = WorkerConsumer
    /\ subs = {}
    /\ stream = <<>>
    /\ subres = [t \in JobTypes |-> NotCalled]
    /\ gen = NoGen
    /\ ContractDeployed

\* ------------------------------------------------- DIDService.CreateDID
\* the blockchainJob struct CreateDID builds; uuid.New() is fresh per call
NewJob(jobID, didID, jobType, userHash, did) ==
    [id |-> jobID, jobType |-> jobType, didID |-> didID,
     userHash |-> userHash, did |-> did,
     status |-> JobStatusPending, retryCount |-> 0,
     maxRetries |-> DefaultMaxRetries, error |-> NoErr, processedAt |-> FALSE]

\* what CreateDID returns: the response message, or the wrapped error of
\* didRepo.Create (a unique violation, or any other database error)
MsgCreated == "DID created successfully and queued for blockchain registration"
ErrCreateConflict == "failed to create DID record: duplicate key value violates unique constraint"
ErrCreateFailed == "failed to create DID record"

\* what a CreateDID request is answered when s.queue is nil: PublishJob
\* dereferences its nil receiver (gin.Recovery: 500)
MsgPanic == "runtime error: invalid memory address or nil pointer dereference"

\* CreateDID after GenerateDID returned g: insert the DID row (an error is
\* returned to the caller); insert the job row (an error is only logged);
\* publish (an error is only logged; s.queue is not checked for nil);
\* return success.
CreateDIDWith(g) ==
    /\ LET newID == Len(dids) + 1
       IN IF DIDConflict(g.did, g.userHash)
          THEN /\ cresp' = ErrCreateConflict
               /\ UNCHANGED <<dids, jobs, published, faults>>
          ELSE \E okDid \in Outcomes :
            IF ~okDid
            THEN /\ cresp' = ErrCreateFailed
                 /\ faults' = Fault(okDid)
                 /\ UNCHANGED <<dids, jobs, published>>
            ELSE \E fJob \in 0..1, fPub \in 0..1 :
                 /\ faults + fJob + fPub <= MaxFaults
                 /\ queue = NilClient => fPub = 0
                 /\ dids' = DIDCreate(g.did, g.userHash, g.privateKey, DIDStatusPending)
                 /\ jobs' = IF fJob = 0
                            THEN JobCreate(NewJob(newID, newID, JobTypeRegisterDID,
                                                g.userHash, g.did))
                            ELSE jobs
                 /\ published' = IF fPub = 0 /\ queue # NilClient
                                 THEN published \cup {newID} ELSE published
                 /\ faults' = faults + fJob + fPub
                 /\ cresp' = IF queue = NilClient THEN MsgPanic ELSE MsgCreated
    /\ UNCHANGED <<chainVars, workerVars, verifyVars, reqLimit, ucall, contractVars, gen, queueVars>>

\* DIDService.CreateDID for the user data h
CreateDID(h) == CreateDIDWith(GenerateDID(h))

\* ------------------------------------------------------- the registry
\* DIDRegistry.registerDID requires the user hash and the DID unregistered,
\* updateDID requires them registered; either can still run out of gas.
CanSucceed(tx) ==
    IF tx.kind = "registerDID" THEN tx.did \notin registry ELSE tx.did \in registry

\* a broadcast transaction is included in a block, with a receipt status
ChainMine(t) ==
    /\ t \in 1..Len(txs)
    /\ txs[t].receipt = "none"
    /\ \E st \in (IF CanSucceed(txs[t]) THEN {"ok", "failed"} ELSE {"failed"}) :
         /\ txs' = [txs EXCEPT ![t].receipt = st]
         /\ registry' = IF st = "ok" THEN registry \cup {txs[t].did} ELSE registry
    /\ UNCHANGED <<dids, jobs, published, cresp, reqLimit, ucall, contractVars, gen, queueVars, faults, blockchain, workerVars, verifyVars>>

\* some broadcast transaction is mined
Mine == \E t \in 1..Len(txs) : ChainMine(t)

\* DIDRegistry.verifyDID as EthereumClient.VerifyDID reads it
ChainVerifyDID(did) == did \in registry

\* ---------------------------------- DIDService.ProcessBlockchainQueue
CurJob(w) == Head(batch[w])

\* the loop moves to the next job of the slice
NextJob(w) ==
    /\ batch' = [batch EXCEPT ![w] = Tail(batch[w])]
    /\ pc' = [pc EXCEPT ![w] = "loop"]

\* mutant: the error is dropped and processJob goes on to its switch
FailIgnored(w, e) ==
    /\ jobErr' = [jobErr EXCEPT ![w] = NoErr]
    /\ pc' = [pc EXCEPT ![w] = "dispatch"]

\* processJob returned err: the loop body will record it
Fail(w, e) ==
    /\ jobErr' = [jobErr EXCEPT ![w] = e]
    /\ pc' = [pc EXCEPT ![w] = "markFailed"]

\* jobs, err := s.queueRepo.GetPendingJobs(10)
ProcessBlockchainQueue(w) ==
    /\ pc[w] = "idle"
    /\ \E ok \in Outcomes :
         /\ faults' = Fault(ok)
         /\ IF ok
            THEN /\ batch' = [batch EXCEPT ![w] = GetPendingJobs(BatchLimit)]
                 /\ pc' = [pc EXCEPT ![w] = "loop"]
            ELSE UNCHANGED <<batch, pc>>
    /\ UNCHANGED <<dids, jobs, published, cresp, reqLimit, ucall, contractVars, gen, queueVars, chainVars, txRef, jobErr, nonce, verifyVars>>

\* end of the slice: return nil
ProcessBlockchainQueueReturn(w) ==
    /\ pc[w] = "loop"
    /\ batch[w] = <<>>
    /\ pc' = [pc EXCEPT ![w] = "idle"]
    /\ UNCHANGED <<dids, jobs, published, cresp, reqLimit, ucall, contractVars, gen, queueVars, chainVars, faults, batch, txRef, jobErr, nonce, verifyVars>>

\* processJob, first statement: UpdateStatus(job.ID, processing, "")
processJob(w) ==
    /\ pc[w] = "loop"
    /\ batch[w] # <<>>
    /\ \E ok \in Outcomes :
         /\ faults' = Fault(ok)
         /\ IF ok
            THEN /\ jobs' = JobUpdateStatus(CurJob(w).id, JobStatusProcessing, NoErr)
                 /\ pc' = [pc EXCEPT ![w] = "dispatch"]
                 /\ UNCHANGED jobErr
            ELSE /\ Fail(w, ErrUpdateJobStatus)
                 /\ UNCHANGED jobs
    /\ UNCHANGED <<dids, published, cresp, reqLimit, ucall, contractVars, gen, queueVars, chainVars, batch, txRef, nonce, verifyVars>>

\* the ledger call the switch on job.JobType selects ("" for the default case)
LedgerCall(jobType) ==
    IF jobType = JobTypeRegisterDID THEN "registerDID"
    ELSE IF jobType = JobTypeUpdateDID THEN "updateDID"
    ELSE ""

\* the nonce PendingNonceAt returns: the account's transactions the node
\* holds, mined or pending
PendingNonceAt == Len(txs)

\* the switch, and EthereumClient.sendTransaction up to the nonce:
\* nonce, err := e.client.PendingNonceAt(ctx, e.address); no lock is held
sendTransaction(w) ==
    /\ pc[w] = "dispatch"
    /\ blockchain # NilClient \/ LedgerCall(CurJob(w).jobType) = ""
    /\ LET call == LedgerCall(CurJob(w).jobType)
       IN IF call = ""
          THEN /\ Fail(w, ErrUnknownJobType)
               /\ UNCHANGED <<nonce, faults>>
          ELSE \E okNonce \in Outcomes :
                 /\ faults' = Fault(okNonce)
                 /\ IF okNonce
                    THEN /\ nonce' = [nonce EXCEPT ![w] = PendingNonceAt]
                         /\ pc' = [pc EXCEPT ![w] = "send"]
                         /\ UNCHANGED jobErr
                    ELSE /\ Fail(w, ErrGetNonce)
                         /\ UNCHANGED nonce
    /\ UNCHANGED <<dids, jobs, published, cresp, reqLimit, ucall, contractVars, gen, queueVars, chainVars, batch, txRef, verifyVars>>

\* the node takes a transaction whose nonce is the account's next one; a
\* nonce already used by a mined or pending transaction of the same gas
\* price is refused (nonce too low / already known / underpriced)
NodeAccepts(n) == n = PendingNonceAt

\* sendTransaction: NewTransaction(nonce, ...), SignTx, SendTransaction
SendSignedTx(w) ==
    /\ pc[w] = "send"
    /\ LET job == CurJob(w) IN
       \E okSend \in Outcomes :
         /\ faults' = Fault(okSend)
         /\ IF okSend /\ NodeAccepts(nonce[w])
            THEN /\ txs' = Append(txs, [kind |-> LedgerCall(job.jobType),
                                        userHash |-> job.userHash, did |-> job.did,
                                        nonce |-> nonce[w], receipt |-> "none"])
                 /\ txRef' = [txRef EXCEPT ![w] = Len(txs) + 1]
                 /\ pc' = [pc EXCEPT ![w] = "await"]
                 /\ UNCHANGED jobErr
            ELSE /\ Fail(w, ErrSendTransaction)
                 /\ UNCHANGED <<txs, txRef>>
    /\ nonce' = [nonce EXCEPT ![w] = NoNonce]
    /\ UNCHANGED <<dids, jobs, published, cresp, reqLimit, ucall, contractVars, gen, queueVars, registry, blockchain, batch, verifyVars>>

\* mutant: any receipt counts as success (no receipt.Status check)
ReceiptPresent(tx) == tx.receipt # "none"

\* a receipt was returned and receipt.Status is not 0
ReceiptSucceeded(tx) == tx.receipt = "ok"

\* mutant: the poll has no timeout, only a receipt ends it
WaitReceiptNoTimeout(w) ==
    /\ pc[w] = "await"
    /\ \/ /\ ReceiptSucceeded(txs[txRef[w]])
          /\ pc' = [pc EXCEPT ![w] = "updateDID"]
          /\ UNCHANGED <<jobErr, txRef>>
       \/ /\ txs[txRef[w]].receipt = "failed"
          /\ Fail(w, ErrTransactionFailed)
          /\ txRef' = [txRef EXCEPT ![w] = NoTx]
    /\ UNCHANGED <<dids, jobs, published, cresp, reqLimit, ucall, contractVars, gen, queueVars, chainVars, faults, batch, nonce, verifyVars>>

\* sendTransaction, the receipt poll: a receipt ends it, so does the 5 minute
\* timeout; status 0 is an error, status 1 returns the transaction
WaitReceipt(w) ==
    /\ pc[w] = "await"
    /\ \/ /\ ReceiptSucceeded(txs[txRef[w]])
          /\ pc' = [pc EXCEPT ![w] = "updateDID"]
          /\ UNCHANGED <<jobErr, txRef>>
       \/ /\ txs[txRef[w]].receipt = "failed"
          /\ Fail(w, ErrTransactionFailed)
          /\ txRef' = [txRef EXCEPT ![w] = NoTx]
       \/ /\ Fail(w, ErrWaitTimeout)
          /\ txRef' = [txRef EXCEPT ![w] = NoTx]
    /\ UNCHANGED <<dids, jobs, published, cresp, reqLimit, ucall, contractVars, gen, queueVars, chainVars, faults, batch, nonce, verifyVars>>

\* processJob: s.didRepo.UpdateStatus(job.DIDID, active, txHash)
processJobUpdateDID(w) ==
    /\ pc[w] = "updateDID"
    /\ \E ok \in Outcomes :
         /\ faults' = Fault(ok)
         /\ IF ok
            THEN /\ dids' = DIDUpdateStatus(CurJob(w).didID, DIDStatusActive, txRef[w])
                 /\ pc' = [pc EXCEPT ![w] = "markCompleted"]
                 /\ UNCHANGED jobErr
            ELSE /\ Fail(w, ErrUpdateDIDStatus)
                 /\ UNCHANGED dids
    /\ UNCHANGED <<jobs, published, cresp, reqLimit, ucall, contractVars, gen, queueVars, chainVars, batch, txRef, nonce, verifyVars>>

\* processJob: s.queueRepo.MarkCompleted(job.ID); return nil
processJobMarkCompleted(w) ==
    /\ pc[w] = "markCompleted"
    /\ \E ok \in Outcomes :
         /\ faults' = Fault(ok)
         /\ IF ok
            THEN /\ jobs' = MarkCompleted(CurJob(w).id)
                 /\ NextJob(w)
                 /\ UNCHANGED jobErr
            ELSE /\ Fail(w, ErrMarkCompleted)
                 /\ UNCHANGED <<jobs, batch>>
    /\ txRef' = [txRef EXCEPT ![w] = NoTx]
    /\ UNCHANGED <<dids, published, cresp, reqLimit, ucall, contractVars, gen, queueVars, chainVars, nonce, verifyVars>>

\* the status and counter the loop body records for a job whose processJob
\* returned an error: UpdateStatus(job.ID, failed, err.Error())
FailureUpdate(id, e) == JobUpdateStatus(id, JobStatusFailed, e)

\* ProcessBlockchainQueue, the error branch of the loop body; a failure of
\* the update itself is only logged
RecordFailure(w) ==
    /\ pc[w] = "markFailed"
    /\ \E ok \in Outcomes :
         /\ faults' = Fault(ok)
         /\ jobs' = IF ok THEN FailureUpdate(CurJob(w).id, jobErr[w]) ELSE jobs
    /\ NextJob(w)
    /\ jobErr' = [jobErr EXCEPT ![w] = NoErr]
    /\ UNCHANGED <<dids, published, cresp, reqLimit, ucall, contractVars, gen, queueVars, chainVars, txRef, nonce, verifyVars>>

\* ------------------------------------------------- DIDService.VerifyDID
EmptyHash == 0
\* the user_hash a request carries: none, a stored one, or one no record has
ReqHashes == {EmptyHash} \cup (1..(MaxDIDs + 1))
Response(isValid, status, message, tx) ==
    [isValid |-> isValid, status |-> status, message |-> message, blockchainTx |-> tx]

\* mutant: the comparison is inverted
HashMismatchInverted(reqHash, recHash) == reqHash # EmptyHash /\ recHash = reqHash

\* req.UserHash != "" && didRecord.UserHash != req.UserHash
HashMismatch(reqHash, recHash) == reqHash # EmptyHash /\ recHash # reqHash

\* VerifyDID up to the hash check: GetByDID, then the user hash comparison
\* (skipped for an empty hash, as GetDIDStatus sends it)
VerifyDID(did, userHash) ==
    /\ vpc = "idle"
    /\ vreq' = [did |-> did, userHash |-> userHash]
    /\ \E ok \in Outcomes :
         /\ faults' = Fault(ok)
         /\ LET rec == GetByDID(did) IN
            IF ~ok \/ rec = NoRec
            THEN /\ vresp' = Response(FALSE, "not_found", "DID not found in local database", NoTx)
                 /\ UNCHANGED <<vpc, vrec>>
            ELSE IF HashMismatch(userHash, rec.userHash)
            THEN /\ vresp' = Response(FALSE, "hash_mismatch", "User hash does not match", NoTx)
                 /\ UNCHANGED <<vpc, vrec>>
            ELSE /\ vrec' = rec
                 /\ vpc' = "chain"
                 /\ UNCHANGED vresp
    /\ UNCHANGED <<dids, jobs, published, cresp, reqLimit, ucall, contractVars, gen, queueVars, chainVars, workerVars, visValid>>

\* mutant: the fallback also accepts a record still waiting for the chain
LocalStatusValidOrPending(status) == status \in {DIDStatusActive, DIDStatusPending}

\* the fallback result: didRecord.Status == active
LocalStatusValid(status) == status = DIDStatusActive

\* mutant: self-heal whatever the chain reported
NeedsUpdateIgnoringChain(isValid, status) == status # DIDStatusActive

\* the self-healing condition of VerifyDID
NeedsUpdate(isValid, status) == isValid /\ status # DIDStatusActive

\* VerifyDID: s.blockchain.VerifyDID(req.DID); on an error the local status
\* is returned; otherwise the record is set active in memory when the chain
\* reports the DID valid and the stored status read earlier is not active
VerifyDIDChain ==
    /\ vpc = "chain"
    /\ blockchain # NilClient
    /\ \E ok \in Outcomes :
         /\ faults' = Fault(ok)
         /\ IF ~ok
            THEN /\ vresp' = Response(LocalStatusValid(vrec.status), vrec.status,
                                      "Blockchain verification failed, using local status",
                                      vrec.blockchainTx)
                 /\ vpc' = "idle"
                 /\ UNCHANGED <<vrec, visValid>>
            ELSE LET isValid == ChainVerifyDID(vreq.did) IN
                 IF NeedsUpdate(isValid, vrec.status)
                 THEN /\ vrec' = [vrec EXCEPT !.status = DIDStatusActive]
                      /\ visValid' = isValid
                      /\ vpc' = "update"
                      /\ UNCHANGED vresp
                 ELSE /\ vresp' = Response(isValid, vrec.status,
                                           "DID verification completed", vrec.blockchainTx)
                      /\ vpc' = "idle"
                      /\ UNCHANGED <<vrec, visValid>>
    /\ UNCHANGED <<dids, jobs, published, cresp, reqLimit, ucall, contractVars, gen, queueVars, chainVars, workerVars, vreq>>

\* VerifyDID: s.didRepo.Update(didRecord) writes the record read earlier back
\* (a failure is only logged), then the response is built from it
VerifyDIDUpdate ==
    /\ vpc = "update"
    /\ \E ok \in Outcomes :
         /\ faults' = Fault(ok)
         /\ dids' = IF ok THEN DIDUpdate(vrec) ELSE dids
    /\ vresp' = Response(visValid, vrec.status, "DID verification completed",
                         vrec.blockchainTx)
    /\ vpc' = "idle"
    /\ UNCHANGED <<jobs, published, cresp, reqLimit, ucall, contractVars, gen, queueVars, chainVars, workerVars, vreq, vrec, visValid>>

\* ---------------------------------------------------- offline mode
\* what a request whose handler panicked was answered (gin.Recovery: 500)
PanicResp == [isValid |-> FALSE, status |-> "", blockchainTx |-> NoTx,
              message |-> "runtime error: invalid memory address or nil pointer dereference"]

\* VerifyDID with s.blockchain = nil: EthereumClient.VerifyDID reads e.client
\* of the nil receiver and panics; the call returns nothing
VerifyDIDPanic ==
    /\ vpc = "chain"
    /\ blockchain = NilClient
    /\ vresp' = PanicResp
    /\ vpc' = "idle"
    /\ UNCHANGED <<dids, jobs, published, cresp, reqLimit, ucall, contractVars, gen, queueVars, chainVars, faults, workerVars, vreq, vrec, visValid>>

\* processJob with s.blockchain = nil: RegisterDID / UpdateDID reach
\* e.client.PendingNonceAt of the nil receiver and panic; the run ends
\* there, the job row stays as processJob left it
processJobPanic(w) ==
    /\ pc[w] = "dispatch"
    /\ blockchain = NilClient
    /\ LedgerCall(CurJob(w).jobType) # ""
    /\ pc' = [pc EXCEPT ![w] = "idle"]
    /\ batch' = [batch EXCEPT ![w] = <<>>]
    /\ UNCHANGED <<dids, jobs, published, cresp, reqLimit, ucall, contractVars, gen, queueVars, chainVars, faults, txRef, jobErr, nonce, verifyVars>>

\* ------------------------------------------ DIDService.UpdateDIDStatus
\* a direct call of the service method: didRepo.UpdateStatus(id, status, tx)
UpdateDIDStatus(didID, status, txHash) ==
    /\ \E ok \in Outcomes :
         /\ faults' = Fault(ok)
         /\ dids' = IF ok THEN DIDUpdateStatus(didID, status, txHash) ELSE dids
    /\ UNCHANGED <<jobs, published, cresp, reqLimit, ucall, contractVars, gen, queueVars, chainVars, workerVars, verifyVars>>

\* ------------------------------------------------------- specifications
\* the service as main wires it: the HTTP handlers, the ticker, the chain
Next ==
    \/ \E h \in UserHashes : CreateDID(h)
    \/ \E w \in Workers : ProcessBlockchainQueue(w)
    \/ \E w \in Workers : ProcessBlockchainQueueReturn(w)
    \/ \E w \in Workers : processJob(w)
    \/ \E w \in Workers : sendTransaction(w)
    \/ \E w \in Workers : SendSignedTx(w)
    \/ \E w \in Workers : WaitReceipt(w)
    \/ \E w \in Workers : processJobUpdateDID(w)
    \/ \E w \in Workers : processJobMarkCompleted(w)
    \/ \E w \in Workers : RecordFailure(w)
    \/ Mine
    \/ \E d \in UserHashes, h \in ReqHashes : VerifyDID(d, h)
    \/ VerifyDIDChain
    \/ VerifyDIDUpdate
    \/ VerifyDIDPanic
    \/ \E w \in Workers : processJobPanic(w)

Spec == Init /\ [][Next]_vars

\* the statuses direct UpdateDIDStatus calls are tried with
DirectStatuses == {DIDStatusActive, DIDStatusRevoked}

\* the same, with direct calls of the DIDService interface's UpdateDIDStatus
NextSvc ==
    \/ Next
    \/ \E d \in 1..MaxDIDs, st \in DirectStatuses, tx \in {NoTx} :
         UpdateDIDStatus(d, st, tx)

SpecSvc == Init /\ [][NextSvc]_vars

\* --------------------------- the Job Ledger repository, called directly
JobStatuses == {JobStatusPending, JobStatusProcessing, JobStatusCompleted,
                JobStatusFailed, JobStatusRetrying}
\* retry counts below, at and above max_retries
RetryCounts == {0, DefaultMaxRetries - 1, DefaultMaxRetries, DefaultMaxRetries + 1}
\* limits below, at and above the number of rows
Limits == (0..MaxJobs) \cup {BatchLimit}

\* a table blockchain_jobs of up to MaxJobs rows in created_at order, each
\* row in any status and retry count the repository can give it
InitLedger ==
    /\ \E n \in 0..MaxJobs : \E f \in [1..n -> JobStatuses \X RetryCounts] :
          jobs = [i \in 1..n |->
                    [NewJob(i, i, JobTypeRegisterDID, i, i)
                        EXCEPT !.status = f[i][1], !.retryCount = f[i][2]]]
    /\ dids = <<>>
    /\ published = {}
    /\ cresp = NoErr
    /\ txs = <<>>
    /\ registry = {}
    /\ faults = 0
    /\ pc = [w \in Workers |-> "idle"]
    /\ batch = [w \in Workers |-> <<>>]
    /\ txRef = [w \in Workers |-> NoTx]
    /\ jobErr = [w \in Workers |-> NoErr]
    /\ nonce = [w \in Workers |-> NoNonce]
    /\ vpc = "idle"
    /\ vreq = [did |-> 0, userHash |-> 0]
    /\ vrec = NoRec
    /\ visValid = FALSE
    /\ vresp = NoResp
    /\ blockchain = EthereumClient
    /\ reqLimit = BatchLimit
    /\ ucall = NoCall
    /\ queue = NATSQueue
    /\ consumer = WorkerConsumer
    /\ subs = {}
    /\ stream = <<>>
    /\ subres = [t \in JobTypes |-> NotCalled]
    /\ gen = NoGen
    /\ ContractDeployed

\* a caller w runs jobs, err := queueRepo.GetPendingJobs(l)
CallGetPendingJobs(w, l) ==
    /\ reqLimit' = l
    /\ batch' = [batch EXCEPT ![w] = GetPendingJobs(l)]
    /\ pc' = [pc EXCEPT ![w] = "loop"]
    /\ UNCHANGED <<dids, jobs, published, cresp, ucall, contractVars, gen, queueVars, chainVars, faults, txRef, jobErr, nonce, verifyVars>>

NextLedger == \E w \in {1}, l \in Limits : CallGetPendingJobs(w, l)

SpecLedger == InitLedger /\ [][NextLedger]_vars

\* ------------------------ CreateDID over everything GenerateDID can return
\* the DID strings and user hashes GenerateDID can return: the DID string
\* carries a prefix of the hash and a fresh public key, so equal hashes come
\* with different DID strings, and equal DID strings with different hashes
GenDIDs == 1..MaxGen
GenHashes == 1..MaxGen

NextCreate ==
    \E d \in GenDIDs, h \in GenHashes :
        CreateDIDWith([did |-> d, userHash |-> h, privateKey |-> KeyPair(h).privateKey])

SpecCreate == Init /\ [][NextCreate]_vars

\* ------------------------------ the Identity Store, updated directly
\* the ids a caller passes: those of stored records and one of no record
CallIDs == 1..(MaxDIDs + 1)

\* a caller runs err := s.UpdateDIDStatus(id, status, txHash), which is
\* didRepo.UpdateStatus(id, status, txHash)
CallUpdateDIDStatus(id, status, txHash) ==
    /\ \E ok \in Outcomes :
         /\ faults' = Fault(ok)
         /\ dids' = IF ok THEN DIDUpdateStatus(id, status, txHash) ELSE dids
         /\ ucall' = [id |-> id, err |-> DIDUpdateStatusErr(id, ok)]
    /\ UNCHANGED <<jobs, published, cresp, reqLimit, gen, contractVars, queueVars, chainVars,
                   workerVars, verifyVars>>

NextStore ==
    \/ \E h \in UserHashes : CreateDID(h)
    \/ \E id \in CallIDs, st \in DIDStatuses, tx \in {NoTx} :
         CallUpdateDIDStatus(id, st, tx)

SpecStore == Init /\ [][NextStore]_vars

\* ======================================================================
\* The queue transport on its own: PublishJob, SubscribeToJobs and the
\* deliveries JetStream makes to the subscription's callback.

\* bounds of the exploration: messages on the stream, and deliveries of one
\* message followed when the consumer sets no limit
MaxStream == 2
MaxDeliveries == 4

\* the variables every specification starts with in the same way
InitIdle ==
    /\ published = {}
    /\ cresp = NoErr
    /\ txs = <<>>
    /\ registry = {}
    /\ faults = 0
    /\ pc = [w \in Workers |-> "idle"]
    /\ batch = [w \in Workers |-> <<>>]
    /\ txRef = [w \in Workers |-> NoTx]
    /\ jobErr = [w \in Workers |-> NoErr]
    /\ nonce = [w \in Workers |-> NoNonce]
    /\ vpc = "idle"
    /\ vreq = [did |-> 0, userHash |-> 0]
    /\ vrec = NoRec
    /\ visValid = FALSE
    /\ vresp = NoResp
    /\ reqLimit = BatchLimit
    /\ ucall = NoCall

\* NewNATSQueue returned a client; its AddConsumer call either created the
\* consumer or failed, which is only logged
InitQueue ==
    /\ InitIdle
    /\ dids = <<>>
    /\ jobs = <<>>
    /\ blockchain = EthereumClient
    /\ queue = NATSQueue
    /\ consumer \in {WorkerConsumer, NoConsumer}
    /\ subs = {}
    /\ stream = <<>>
    /\ subres = [t \in JobTypes |-> NotCalled]
    /\ gen = NoGen
    /\ ContractDeployed

PayloadJSON == "json"
PayloadOther == "not json"
MsgStored == "stored"
MsgAcked == "acked"
MsgNakked == "nakked"
NoReply == [outcome |-> "none", reply |-> "none"]

\* a message as js.Publish stores it on subject blockchain.jobs.<jobType>
StoredMsg(jobType, payload) ==
    [jobType |-> jobType, payload |-> payload, deliveries |-> 0,
     state |-> MsgStored, last |-> NoReply]

\* NATSQueue.PublishJob: the job's JSON goes to blockchain.jobs.<JobType>
PublishJob(jobType) ==
    /\ queue = NATSQueue
    /\ Len(stream) < MaxStream
    /\ stream' = Append(stream, StoredMsg(jobType, PayloadJSON))
    /\ UNCHANGED <<dids, jobs, published, cresp, reqLimit, ucall, contractVars, gen, faults, queue, consumer,
                   subs, subres, chainVars, workerVars, verifyVars>>

\* the stream takes blockchain.jobs.* from any publisher, whatever the payload
PublishRaw(jobType) ==
    /\ Len(stream) < MaxStream
    /\ stream' = Append(stream, StoredMsg(jobType, PayloadOther))
    /\ UNCHANGED <<dids, jobs, published, cresp, reqLimit, ucall, contractVars, gen, faults, queue, consumer,
                   subs, subres, chainVars, workerVars, verifyVars>>

ErrSubscribe == "failed to subscribe to jobs"

\* what js.Subscribe does with the durable name "did-manager-worker" when a
\* consumer of that name exists with the subscription's subject as filter
\* and without a deliver subject: the client library refuses to bind a push
\* subscription to a pull consumer, or (a library that does not check) binds
BindOutcomes == {"rejected", "bound"}

\* the consumer js.Subscribe creates from nats.Durable and nats.AckExplicit
\* alone: a push consumer on the subject, no delivery limit
SubscribedConsumer(jobType) ==
    [filter |-> jobType, maxDeliver |-> Unlimited, push |-> TRUE]

\* NATSQueue.SubscribeToJobs(jobType, handler)
SubscribeToJobs(jobType) ==
    /\ queue = NATSQueue
    /\ subres[jobType] = NotCalled
    /\ IF consumer = NoConsumer
       THEN /\ consumer' = SubscribedConsumer(jobType)
            /\ subs' = subs \cup {jobType}
            /\ subres' = [subres EXCEPT ![jobType] = NoErr]
       ELSE IF consumer.filter # jobType
       THEN /\ subres' = [subres EXCEPT ![jobType] = ErrSubscribe]
            /\ UNCHANGED <<consumer, subs>>
       ELSE \E b \in (IF consumer.push THEN {"bound"} ELSE BindOutcomes) :
            /\ subres' = [subres EXCEPT ![jobType] =
                             IF b = "bound" THEN NoErr ELSE ErrSubscribe]
            /\ subs' = IF b = "bound" THEN subs \cup {jobType} ELSE subs
            /\ UNCHANGED consumer
    /\ UNCHANGED <<dids, jobs, published, cresp, reqLimit, ucall, contractVars, gen, faults, queue, stream,
                   chainVars, workerVars, verifyVars>>

ReplyAck == "ack"
ReplyNak == "nak"

\* the subscription callback for one delivery: json.Unmarshal, the handler,
\* then msg.Nak() or msg.Ack()
SubscribeCallback(payload, handlerOk) ==
    IF payload # PayloadJSON
    THEN [outcome |-> "decode error", reply |-> ReplyNak]
    ELSE IF ~handlerOk
    THEN [outcome |-> "handler error", reply |-> ReplyNak]
    ELSE [outcome |-> "success", reply |-> ReplyAck]

\* the consumer still owes message m a delivery: not acknowledged, and
\* fewer than MaxDeliver deliveries made if the consumer sets a limit
Deliverable(m) ==
    /\ consumer # NoConsumer
    /\ consumer.filter = m.jobType
    /\ consumer.filter \in subs
    /\ m.state # MsgAcked
    /\ consumer.maxDeliver = Unlimited \/ m.deliveries < consumer.maxDeliver

\* JetStream delivers message i to the bound subscription and the callback runs
Deliver(i) ==
    /\ i \in 1..Len(stream)
    /\ Deliverable(stream[i])
    /\ stream[i].deliveries < MaxDeliveries
    /\ \E handlerOk \in BOOLEAN :
         LET r == SubscribeCallback(stream[i].payload, handlerOk)
         IN stream' = [stream EXCEPT ![i].deliveries = @ + 1,
                                     ![i].last = r,
                                     ![i].state = IF r.reply = ReplyAck
                                                  THEN MsgAcked ELSE MsgNakked]
    /\ UNCHANGED <<dids, jobs, published, cresp, reqLimit, ucall, contractVars, gen, faults, queue, consumer,
                   subs, subres, chainVars, workerVars, verifyVars>>

NextQueue ==
    \/ \E t \in JobTypes : PublishJob(t)
    \/ \E t \in JobTypes : PublishRaw(t)
    \/ \E t \in JobTypes : SubscribeToJobs(t)
    \/ \E i \in 1..MaxStream : Deliver(i)

SpecQueue == InitQueue /\ [][NextQueue]_vars

\* ======================================================================
\* One ProcessBlockchainQueue run at a time over a Job Ledger that already
\* holds several rows, of every job type the schema allows.

\* rows of the tables the runs start from
MaxBatchRows == 2

\* the Job Ledger rows i of the given types, pending, each for its own
\* pending Identity Record i
PendingJobs(types) ==
    [i \in 1..Len(types) |-> NewJob(i, i, types[i], i, i)]
PendingDIDs(n) ==
    [i \in 1..n |-> [id |-> i, userHash |-> i, did |-> i,
                     publicKey |-> KeyPair(i).privateKey,
                     status |-> DIDStatusPending, blockchainTx |-> NoTx]]

\* the tables: up to MaxBatchRows rows of any types, or one row more than a
\* run takes, of the type that needs no chain
BatchTables ==
    UNION {[1..n -> JobTypes] : n \in 1..MaxBatchRows}
       \cup {[i \in 1..(BatchLimit + 1) |-> JobTypeRevokeDID]}

InitBatch ==
    /\ InitIdle
    /\ \E types \in BatchTables :
         /\ jobs = PendingJobs(types)
         /\ dids = PendingDIDs(Len(types))
    /\ blockchain \in {EthereumClient, NilClient}
    /\ queue = NATSQueue
    /\ consumer = WorkerConsumer
    /\ subs = {}
    /\ stream = <<>>
    /\ subres = [t \in JobTypes |-> NotCalled]
    /\ gen = NoGen
    /\ ContractDeployed

\* the run of the ticker (or of one POST /queue/process at a time)
Ticker == 1

NextBatch ==
    \/ ProcessBlockchainQueue(Ticker)
    \/ ProcessBlockchainQueueReturn(Ticker)
    \/ processJob(Ticker)
    \/ sendTransaction(Ticker)
    \/ SendSignedTx(Ticker)
    \/ WaitReceipt(Ticker)
    \/ processJobUpdateDID(Ticker)
    \/ processJobMarkCompleted(Ticker)
    \/ RecordFailure(Ticker)
    \/ processJobPanic(Ticker)
    \/ Mine

SpecBatch == InitBatch /\ [][NextBatch]_vars

\* ======================================================================
\* Generator.GenerateDID on its own, over key pairs and user hashes drawn at
\* large; strings are sequences of characters.

\* the number of public keys, and of user hashes, drawn
MaxSeeds == 8

PublicKeySize == 32
HashSize == 32
PrefixLen == 16
ByteValues == 256
HexBase == 16

\* "did:example:user:"
DIDPrefix == <<"d", "i", "d", ":", "e", "x", "a", "m", "p", "l", "e", ":",
               "u", "s", "e", "r", ":">>
HexDigits == <<"0", "1", "2", "3", "4", "5", "6", "7",
               "8", "9", "a", "b", "c", "d", "e", "f">>

\* the s-th byte string of length n drawn (a public key of
\* ed25519.GenerateKey, a digest of sha256.Sum256)
DrawnBytes(s, m, n) == [i \in 1..n |-> (s * m + i * (2 * s + 1)) % ByteValues]

\* hex.EncodeToString: two lowercase hex characters per byte, high digit first
EncodeToString(bytes) ==
    [i \in 1..(2 * Len(bytes)) |->
        LET b == bytes[(i + 1) \div 2]
        IN IF i % 2 = 1 THEN HexDigits[(b \div HexBase) + 1]
                        ELSE HexDigits[(b % HexBase) + 1]]

\* s[:n] of a Go slice or string
Prefix(s, n) == SubSeq(s, 1, n)

\* mutant: the key part is cut to 16 characters after encoding
DIDStringShortKey(userHashHex, publicKey) ==
    DIDPrefix \o Prefix(userHashHex, PrefixLen) \o <<":">>
        \o Prefix(EncodeToString(publicKey), PrefixLen)

\* fmt.Sprintf("did:example:user:%s:%s", userHashHex[:16],
\*             hex.EncodeToString(publicKey[:16]))
DIDString(userHashHex, publicKey) ==
    DIDPrefix \o Prefix(userHashHex, PrefixLen) \o <<":">>
        \o EncodeToString(Prefix(publicKey, PrefixLen))

InitGen ==
    /\ InitIdle
    /\ dids = <<>>
    /\ jobs = <<>>
    /\ blockchain = EthereumClient
    /\ queue = NATSQueue
    /\ consumer = WorkerConsumer
    /\ subs = {}
    /\ stream = <<>>
    /\ subres = [t \in JobTypes |-> NotCalled]
    /\ ContractDeployed
    /\ \E k \in 1..MaxSeeds, u \in 1..MaxSeeds :
         gen = [NoGen EXCEPT !.publicKey = DrawnBytes(k, 29, PublicKeySize),
                             !.userHash = DrawnBytes(u, 101, HashSize)]

\* GenerateDID from the key pair and the digest on: userHashHex, did
GenerateDIDCall ==
    /\ gen.did = <<>>
    /\ LET userHashHex == EncodeToString(gen.userHash)
       IN gen' = [gen EXCEPT !.userHashHex = userHashHex,
                             !.did = DIDString(userHashHex, gen.publicKey)]
    /\ UNCHANGED <<dids, jobs, published, cresp, reqLimit, ucall, contractVars, faults, queueVars,
                   chainVars, workerVars, verifyVars>>

NextGen == GenerateDIDCall

SpecGen == InitGen /\ [][NextGen]_vars

\* ======================================================================
\* Local mode: NewNATSQueue failed and main passed a nil queue client on;
\* the ticker is not started, the HTTP handlers are.
InitLocal ==
    /\ InitIdle
    /\ dids = <<>>
    /\ jobs = <<>>
    /\ blockchain \in {EthereumClient, NilClient}
    /\ queue = NilClient
    /\ consumer = NoConsumer
    /\ subs = {}
    /\ stream = <<>>
    /\ subres = [t \in JobTypes |-> NotCalled]
    /\ gen = NoGen
    /\ ContractDeployed

SpecLocal == InitLocal /\ [][Next]_vars

\* the same runs with the scheduling the code has: the goroutine inside
\* sendTransaction keeps running, its RPC calls return, and the poll's select
\* is reached every second until the context's deadline has passed; the
\* chain is under no obligation to mine
SpecBatchFair ==
    /\ SpecBatch
    /\ WF_vars(SendSignedTx(Ticker))
    /\ WF_vars(WaitReceipt(Ticker))

\* the runs with a fair poller: the ticker fires every 30 seconds, also
\* after a run returned, and the goroutine of a run executes its next
\* statement; the chain is under no obligation to mine
SpecPollerFair ==
    /\ SpecBatch
    /\ WF_vars(ProcessBlockchainQueue(Ticker))
    /\ WF_vars(ProcessBlockchainQueueReturn(Ticker))
    /\ WF_vars(processJob(Ticker))
    /\ WF_vars(sendTransaction(Ticker))
    /\ WF_vars(SendSignedTx(Ticker))
    /\ WF_vars(WaitReceipt(Ticker))
    /\ WF_vars(processJobUpdateDID(Ticker))
    /\ WF_vars(processJobMarkCompleted(Ticker))
    /\ WF_vars(RecordFailure(Ticker))
    /\ WF_vars(processJobPanic(Ticker))

\* ======================================================================
\* The DIDRegistry contract on its own, called by its owner, by a stranger,
\* and by the service's EthereumClient with the call data it encodes.

Owner == "owner"
Stranger == "stranger"
Senders == {Owner, Stranger}

\* the functions the contract exposes with userHash and DID parameters, as
\* the 4-byte selector identifies them: name and parameter types
FnRegisterDID == <<"registerDID", <<"bytes32", "string", "string">> >>
FnUpdateDID == <<"updateDID", <<"bytes32", "string", "string">> >>
FnRevokeDID == <<"revokeDID", <<"bytes32">> >>
FnBatchRegisterDIDs == <<"batchRegisterDIDs", <<"bytes32[]", "string[]", "string[]">> >>
ContractFunctions == {FnRegisterDID, FnUpdateDID, FnRevokeDID, FnBatchRegisterDIDs}

\* modifier onlyAuthorized (no operator has been added)
Authorized(sender) == sender = Owner

\* the call reverts: nothing changes but the record of the call
Reverts(op) ==
    /\ callres' = [op |-> op, reverted |-> TRUE]
    /\ UNCHANGED <<didRecords, didToUserHash>>

NewDIDRecord(did) == [did |-> did, registered |-> TRUE, isActive |-> TRUE, isRevoked |-> FALSE]

\* registerDID(userHash, did, metadata)
registerDID(sender, userHash, did) ==
    /\ IF /\ Authorized(sender)
          /\ ~didRecords[userHash].registered
          /\ did # EmptyDID
          /\ didToUserHash[did] = ZeroHash
       THEN /\ didRecords' = [didRecords EXCEPT ![userHash] = NewDIDRecord(did)]
            /\ didToUserHash' = [didToUserHash EXCEPT ![did] = userHash]
            /\ callres' = [op |-> FnRegisterDID, reverted |-> FALSE]
       ELSE Reverts(FnRegisterDID)
    /\ UNCHANGED <<dids, jobs, published, cresp, reqLimit, ucall, gen, faults, queueVars,
                   chainVars, workerVars, verifyVars>>

\* the loop of batchRegisterDIDs from entry i on, over the mappings recs and
\* map: a registered user hash is skipped, _registerDIDInternal's requires
\* fail the whole call (result "revert")
RECURSIVE BatchFrom(_, _, _, _, _)
BatchFrom(i, userHashes, newDids, recs, map) ==
    IF i > Len(userHashes) THEN [recs |-> recs, map |-> map, reverted |-> FALSE]
    ELSE IF recs[userHashes[i]].registered
    THEN BatchFrom(i + 1, userHashes, newDids, recs, map)
    ELSE IF newDids[i] = EmptyDID \/ map[newDids[i]] # ZeroHash
    THEN [recs |-> recs, map |-> map, reverted |-> TRUE]
    ELSE BatchFrom(i + 1, userHashes, newDids,
                   [recs EXCEPT ![userHashes[i]] = NewDIDRecord(newDids[i])],
                   [map EXCEPT ![newDids[i]] = userHashes[i]])

\* batchRegisterDIDs(userHashes, dids, metadatas)
batchRegisterDIDs(sender, userHashes, newDids) ==
    /\ LET r == BatchFrom(1, userHashes, newDids, didRecords, didToUserHash)
       IN IF Authorized(sender) /\ Len(userHashes) = Len(newDids) /\ ~r.reverted
          THEN /\ didRecords' = r.recs
               /\ didToUserHash' = r.map
               /\ callres' = [op |-> FnBatchRegisterDIDs, reverted |-> FALSE]
          ELSE Reverts(FnBatchRegisterDIDs)
    /\ UNCHANGED <<dids, jobs, published, cresp, reqLimit, ucall, gen, faults, queueVars,
                   chainVars, workerVars, verifyVars>>

\* updateDID(userHash, newDid, metadata); newDid is not required to be free
updateDID(sender, userHash, newDid) ==
    /\ IF /\ Authorized(sender)
          /\ didRecords[userHash].registered
          /\ ~didRecords[userHash].isRevoked
          /\ newDid # EmptyDID
       THEN LET oldDid == didRecords[userHash].did
            IN /\ didToUserHash' = IF oldDid # newDid
                                   THEN [didToUserHash EXCEPT ![oldDid] = ZeroHash,
                                                              ![newDid] = userHash]
                                   ELSE didToUserHash
               /\ didRecords' = [didRecords EXCEPT ![userHash].did = newDid]
               /\ callres' = [op |-> FnUpdateDID, reverted |-> FALSE]
       ELSE Reverts(FnUpdateDID)
    /\ UNCHANGED <<dids, jobs, published, cresp, reqLimit, ucall, gen, faults, queueVars,
                   chainVars, workerVars, verifyVars>>

\* revokeDID(userHash)
revokeDID(sender, userHash) ==
    /\ IF /\ Authorized(sender)
          /\ didRecords[userHash].registered
          /\ ~didRecords[userHash].isRevoked
       THEN /\ didRecords' = [didRecords EXCEPT ![userHash].isActive = FALSE,
                                                ![userHash].isRevoked = TRUE]
            /\ didToUserHash' = [didToUserHash EXCEPT ![didRecords[userHash].did] = ZeroHash]
            /\ callres' = [op |-> FnRevokeDID, reverted |-> FALSE]
       ELSE Reverts(FnRevokeDID)
    /\ UNCHANGED <<dids, jobs, published, cresp, reqLimit, ucall, gen, faults, queueVars,
                   chainVars, workerVars, verifyVars>>

\* verifyDID(did): (isValid, userHash)
verifyDID(did) ==
    LET userHash == didToUserHash[did]
    IN IF userHash = ZeroHash THEN <<FALSE, ZeroHash>>
       ELSE <<didRecords[userHash].isActive /\ ~didRecords[userHash].isRevoked, userHash>>

\* the function EthereumClient.RegisterDID / UpdateDID packs: the ABI JSON
\* declares two inputs
ClientFunction(call) == <<call, <<"bytes32", "string">> >>

\* a transaction of the service's account (the deployer) with the call data
\* of RegisterDID or UpdateDID: the contract runs the function whose selector
\* the data starts with; it has no fallback, so any other selector reverts
ClientCall(call, userHash, did) ==
    IF ClientFunction(call) \in ContractFunctions
    THEN IF call = "registerDID" THEN registerDID(Owner, userHash, did)
                                 ELSE updateDID(Owner, userHash, did)
    ELSE /\ Reverts(ClientFunction(call))
         /\ UNCHANGED <<dids, jobs, published, cresp, reqLimit, ucall, gen, faults, queueVars,
                        chainVars, workerVars, verifyVars>>

\* the arrays batchRegisterDIDs is called with
MaxBatchArgs == 2
ArgSeqs(S) == UNION {[1..n -> S] : n \in 0..MaxBatchArgs}

InitRegistry ==
    /\ InitIdle
    /\ dids = <<>>
    /\ jobs = <<>>
    /\ blockchain = EthereumClient
    /\ queue = NATSQueue
    /\ consumer = WorkerConsumer
    /\ subs = {}
    /\ stream = <<>>
    /\ subres = [t \in JobTypes |-> NotCalled]
    /\ gen = NoGen
    /\ ContractDeployed

NextRegistry ==
    \/ \E s \in Senders, h \in RegHashes, d \in RegDIDs : registerDID(s, h, d)
    \/ \E s \in Senders, hs \in ArgSeqs(RegHashes), ds \in ArgSeqs(RegDIDs) :
         batchRegisterDIDs(s, hs, ds)
    \/ \E s \in Senders, h \in RegHashes, d \in RegDIDs : updateDID(s, h, d)
    \/ \E s \in Senders, h \in RegHashes : revokeDID(s, h)
    \/ \E c \in {"registerDID", "updateDID"}, h \in RegHashes, d \in RegDIDs :
         ClientCall(c, h, d)

SpecRegistry == InitRegistry /\ [][NextRegistry]_vars

\* ================================================================ claims
\* the row of the Job Ledger js with that id
JobIn(js, id) == js[CHOOSE i \in 1..Len(js) : js[i].id = id]
JobIDs == {jobs[i].id : i \in 1..Len(jobs)}

\* the Ledger Client writes broadcast so far for a job
SubmittedFor(job) ==
    Cardinality({t \in 1..Len(txs) :
                    txs[t].did = job.did /\ txs[t].kind = LedgerCall(job.jobType)})

\* the errors of a Ledger Client write, as processJob returns them
LedgerWriteErrors == {ErrGetNonce, ErrSendTransaction, ErrWaitTimeout, ErrTransactionFailed}
RecoverableErrors == {ErrWaitTimeout, ErrTransactionFailed}

\* worker w starts per-job processing of its current job in this step
StartsJob(w) == pc[w] = "loop" /\ batch[w] # <<>> /\ pc'[w] = "dispatch"
\* worker w's loop body records the error processJob returned in this step
RecordsFailure(w) == pc[w] = "markFailed" /\ pc'[w] = "loop"
\* worker w's processJob returns nil in this step
ReturnsSuccess(w) == pc[w] = "markCompleted" /\ pc'[w] = "loop"

\* C1: for every job, at most one Ledger Client write is ever submitted,
\* also when two ProcessBlockchainQueue runs hold the job at the same time.
C1_OneSubmissionPerJob ==
    \A i \in 1..Len(jobs) : SubmittedFor(jobs[i]) <= 1

\* C2: once a job has been processed to success (status completed), no
\* later run of processJob changes its row or submits another transaction.
C2_SuccessPathIdempotent ==
    [][\A i \in 1..Len(jobs) :
          jobs[i].status = JobStatusCompleted =>
             /\ jobs'[i] = jobs[i]
             /\ SubmittedFor(jobs[i])' = SubmittedFor(jobs[i])]_vars

\* C3: a CreateDID call that returns success (it inserted the Identity
\* Record) leaves that record pending with an empty chainTx and exactly one
\* Job Ledger row referencing it, of type register_did and status pending.
C3_CreateOneJob ==
    [][Len(dids') = Len(dids) + 1 =>
         LET d == dids'[Len(dids')]
             rows == {i \in 1..Len(jobs') : jobs'[i].didID = d.id}
         IN /\ d.status = DIDStatusPending
            /\ d.blockchainTx = NoTx
            /\ Cardinality(rows) = 1
            /\ \A i \in rows : /\ jobs'[i].jobType = JobTypeRegisterDID
                               /\ jobs'[i].status = JobStatusPending]_vars

\* C4: when processJob returns success for a register job, the job is
\* completed with processedAt set and its Identity Record is active with
\* chainTx equal to the non-empty transaction reference the Ledger Client
\* returned.
C4_ScenarioA ==
    [][\A w \in Workers : \A id \in JobIDs :
          (ReturnsSuccess(w) /\ CurJob(w).id = id) =>
             LET job == JobIn(jobs', id) IN
             /\ job.status = JobStatusCompleted
             /\ job.processedAt
             /\ dids'[job.didID].status = DIDStatusActive
             /\ txRef[w] # NoTx
             /\ dids'[job.didID].blockchainTx = txRef[w]]_vars

\* C5: when the loop body records a reverted registerDID transaction, the
\* job becomes retrying while retries remain (failed only once retryCount has
\* reached maxRetries), its error is non-empty and the Identity Record stays
\* pending.
C5_RevertedRetries ==
    [][\A w \in Workers : \A id \in JobIDs :
          (RecordsFailure(w) /\ CurJob(w).id = id
              /\ jobErr[w] = ErrTransactionFailed) =>
             LET job == JobIn(jobs', id) IN
             /\ job.status = IF JobIn(jobs, id).retryCount < job.maxRetries
                             THEN JobStatusRetrying ELSE JobStatusFailed
             /\ job.error # NoErr
             /\ dids'[job.didID].status = DIDStatusPending]_vars

\* C6: every failure of the Ledger Client write is recorded with
\* incrementRetryCount: retryCount + 1, status retrying, the error text kept.
C6_FailureIncrementsRetryCount ==
    [][\A w \in Workers : \A id \in JobIDs :
          (RecordsFailure(w) /\ CurJob(w).id = id
              /\ jobErr[w] \in LedgerWriteErrors) =>
             /\ JobIn(jobs', id).retryCount = JobIn(jobs, id).retryCount + 1
             /\ JobIn(jobs', id).status = JobStatusRetrying
             /\ JobIn(jobs', id).error = jobErr[w]]_vars

\* C7: a job whose last recorded outcome is a recoverable Ledger Client
\* failure (timeout, revert) with retryCount < maxRetries, and that no run
\* has completed or holds, is returned by getPendingJobs.
C7_RecoverableFailureIsPending ==
    \A i \in 1..Len(jobs) :
       (/\ jobs[i].error \in RecoverableErrors
        /\ jobs[i].retryCount < jobs[i].maxRetries
        /\ jobs[i].status \notin {JobStatusCompleted, JobStatusProcessing}) =>
          \E k \in 1..Len(GetPendingJobs(BatchLimit)) :
             GetPendingJobs(BatchLimit)[k].id = jobs[i].id

\* C8: per-job processing is started only on a job whose row is, at that
\* moment, pending or retrying with retryCount < maxRetries.
C8_StartOnlyEligible ==
    [][\A w \in Workers : StartsJob(w) => Eligible(JobIn(jobs, CurJob(w).id))]_vars

\* C9: every change of a Job Ledger row's status is one of the lifecycle's
\* transitions; a completed row never changes status.
AllowedTransitions ==
    {<<JobStatusPending, JobStatusProcessing>>,
     <<JobStatusRetrying, JobStatusProcessing>>,
     <<JobStatusProcessing, JobStatusCompleted>>,
     <<JobStatusProcessing, JobStatusFailed>>,
     <<JobStatusProcessing, JobStatusRetrying>>}

C9_LifecycleTransitions ==
    [][\A i \in 1..Len(jobs) :
          jobs'[i].status # jobs[i].status =>
             <<jobs[i].status, jobs'[i].status>> \in AllowedTransitions]_vars

\* how an Identity Record can become active in one step
\* processJob's updateStatus after a write confirmed with a success receipt
ActivatedByWorker(i) ==
    \E w \in Workers :
       /\ pc[w] = "updateDID" /\ pc'[w] = "markCompleted"
       /\ CurJob(w).didID = i
       /\ txRef[w] # NoTx
       /\ txs[txRef[w]].receipt = "ok"
       /\ txs[txRef[w]].did = dids[i].did
       /\ dids'[i].blockchainTx = txRef[w]
\* VerifyDID's self-healing update after the chain reported the DID valid
ActivatedByVerify(i) ==
    /\ vpc = "update" /\ vpc' = "idle"
    /\ vrec.id = i
    /\ visValid
\* a direct UpdateDIDStatus call: nothing but the Identity Store changes
ActivatedByUpdateDIDStatus(i) ==
    /\ Len(dids') = Len(dids)
    /\ UNCHANGED <<jobs, published, cresp, reqLimit, ucall, contractVars, gen, queueVars, chainVars, workerVars, verifyVars>>

BecomesActive(i) ==
    /\ i <= Len(dids)
    /\ dids[i].status # DIDStatusActive
    /\ dids'[i].status = DIDStatusActive

WorkerUpdatesStatus(w, i) ==
    /\ pc[w] = "updateDID" /\ pc'[w] = "markCompleted"
    /\ CurJob(w).didID = i

\* C11: after its creation an Identity Record is changed only by the
\* Reconciliation Worker's updateStatus; no other operation (VerifyDID, the
\* status query) writes a record back that it read earlier.
C11_OnlyWorkerMutates ==
    [][\A i \in 1..Len(dids) :
          dids'[i] # dids[i] => \E w \in Workers : WorkerUpdatesStatus(w, i)]_vars

\* run w has a write transaction in flight: it has read the account's nonce
\* and its sendTransaction has not returned yet
InFlight(w) == pc[w] \in {"send", "await"}

\* C12: at most one Ledger Client write transaction is in flight at any
\* time, so no two concurrently built transactions are assigned the same
\* nonce.
C12_SingleWriterNonce ==
    \A w1 \in Workers : \A w2 \in Workers \ {w1} :
       /\ ~(InFlight(w1) /\ InFlight(w2))
       /\ (pc[w1] = "send" /\ pc[w2] = "send") => nonce[w1] # nonce[w2]

\* run w's registerDID / updateDID call returns in this step: with a
\* transaction reference, or with an error
ReturnsTx(w) == pc[w] = "await" /\ pc'[w] = "updateDID"
ReturnsError(w) ==
    /\ pc[w] \in {"dispatch", "send", "await"}
    /\ pc'[w] = "markFailed"
    /\ jobErr'[w] # ErrUnknownJobType

\* C13: registerDID / updateDID return a transaction reference only when
\* the broadcast transaction was seen included with a success status; with no
\* receipt seen before the timeout they return the timeout error, with a
\* failure receipt the transaction-failed error, and with an error no
\* transaction reference.
C13_ReferenceOnlyOnSuccessReceipt ==
    [][\A w \in Workers :
          /\ ReturnsTx(w) =>
                /\ txRef'[w] # NoTx
                /\ txs[txRef'[w]].receipt = "ok"
                /\ jobErr'[w] = NoErr
          /\ ReturnsError(w) =>
                /\ txRef'[w] = NoTx
                /\ jobErr'[w] \in LedgerWriteErrors
          /\ (pc[w] = "await" /\ pc'[w] # "await") =>
                /\ txs[txRef[w]].receipt = "none" => jobErr'[w] = ErrWaitTimeout
                /\ txs[txRef[w]].receipt = "failed" =>
                      jobErr'[w] \in {ErrTransactionFailed, ErrWaitTimeout}
                /\ jobErr'[w] = ErrTransactionFailed => txs[txRef[w]].receipt = "failed"]_vars

\* C13 witness: one call has returned the reference of a transaction mined
\* with success, another has returned the transaction-failed error and no
\* reference.
C13_Witness ==
    \E w1 \in Workers : \E w2 \in Workers :
       /\ pc[w1] = "updateDID"
       /\ txRef[w1] # NoTx
       /\ txs[txRef[w1]].receipt = "ok"
       /\ pc[w2] = "markFailed"
       /\ jobErr[w2] = ErrTransactionFailed
       /\ txRef[w2] = NoTx

\* VerifyDID returns its response in this step
VerifyResponds == vpc' = "idle" /\ (vpc # "idle" \/ vresp' # vresp)
\* the Ledger Client's verifyDID call of this step returned an error
ChainCallFails == vpc = "chain" /\ faults' # faults

\* C14: VerifyDID returns is_valid = true only if an Identity Record exists
\* for the DID, the supplied hash is empty or equals the stored userHash, and
\* either the Ledger Client reports the DID active or its call failed and
\* the stored status read is active.
C14_ValidOnlyIf ==
    [][(VerifyResponds /\ vresp'.isValid) =>
          /\ vpc # "idle"
          /\ \E i \in 1..Len(dids) :
                /\ dids[i].did = vreq.did
                /\ vrec.id = i
                /\ vreq.userHash = EmptyHash \/ vreq.userHash = dids[i].userHash
          /\ \/ ~ChainCallFails /\ ChainVerifyDID(vreq.did)
             \/ ChainCallFails /\ vrec.status = DIDStatusActive]_vars

\* C14 witness: VerifyDID has answered is_valid = true from the stored
\* status after the Ledger Client call failed, for a request with a hash.
C14_Witness ==
    /\ vpc = "idle"
    /\ vresp.isValid
    /\ vresp.message = "Blockchain verification failed, using local status"
    /\ vreq.userHash # EmptyHash

\* a VerifyDID call starts in this step (a repeated identical call that is
\* answered at once with the same response leaves the state unchanged)
VerifyCalled == vpc = "idle" /\ (vreq' # vreq \/ vresp' # vresp \/ vpc' # vpc)

\* C15: VerifyDID for a DID that exists locally, with a non-empty hash that
\* differs from the stored userHash, returns is_valid = false with status
\* hash_mismatch and changes no Identity Record and no Job Ledger row.
C15_HashMismatchNoMutation ==
    [][\A i \in 1..Len(dids) :
          (/\ VerifyCalled
           /\ faults' = faults
           /\ vreq'.did = dids[i].did
           /\ vreq'.userHash # EmptyHash
           /\ vreq'.userHash # dids[i].userHash) =>
             /\ vpc' = "idle"
             /\ ~vresp'.isValid
             /\ vresp'.status = "hash_mismatch"
             /\ dids' = dids
             /\ jobs' = jobs]_vars

\* C15 witness: a request with a wrong hash for a stored, active DID has
\* been answered hash_mismatch.
C15_Witness ==
    /\ vpc = "idle"
    /\ vresp.status = "hash_mismatch"
    /\ \E i \in 1..Len(dids) :
          /\ dids[i].did = vreq.did
          /\ dids[i].userHash # vreq.userHash
          /\ dids[i].status = DIDStatusActive

\* the degraded-mode response for the record VerifyDID read
DegradedResponse(rec) ==
    Response(rec.status = DIDStatusActive, rec.status,
             "Blockchain verification failed, using local status", rec.blockchainTx)

\* C16: whenever the Ledger Client cannot answer verifyDID (its call
\* returns an error, or the service runs without a chain client), VerifyDID
\* returns for an existing DID is_valid = (stored status is active) and the
\* stored status with the degraded-mode message; it never aborts.
C16_DegradesToLocalStatus ==
    [][(/\ vpc = "chain"
        /\ vpc' # "chain"
        /\ ChainCallFails \/ blockchain = NilClient) =>
          vresp' = DegradedResponse(vrec)]_vars

\* C17: when VerifyDID found the record, the hash check passed and the
\* Ledger Client reports the DID active while the status read is not active,
\* the stored record's status is active after the call and the status
\* returned equals the stored one; when the Ledger Client reports the DID not
\* active, VerifyDID leaves the stored record unchanged.
C17_SelfHealing ==
    [][/\ (vpc = "update" /\ vpc' = "idle") =>
             /\ dids'[vrec.id].status = DIDStatusActive
             /\ vresp'.status = dids'[vrec.id].status
       /\ (/\ vpc = "chain" /\ vpc' # "chain"
           /\ blockchain # NilClient
           /\ ~ChainCallFails
           /\ ~ChainVerifyDID(vreq.did)) =>
             /\ dids' = dids
             /\ vpc' = "idle"]_vars

\* a CreateDID call returns success in this step: it inserted its record
CreateSucceeds == Len(dids') = Len(dids) + 1

\* C18: CreateDID makes no Ledger Client call and does not wait for job
\* processing: it returns success with the Identity Record and its job both
\* pending, with a chain client and without one.
C18_CreateWithoutLedger ==
    [][CreateSucceeds =>
          LET d == dids'[Len(dids')] IN
          /\ UNCHANGED <<txs, registry, workerVars>>
          /\ d.status = DIDStatusPending
          /\ \E i \in 1..Len(jobs') :
                /\ jobs'[i].didID = d.id
                /\ jobs'[i].status = JobStatusPending]_vars

\* the rows of js getPendingJobs may return, by position
EligibleRows(js) ==
    {i \in 1..Len(js) : /\ js[i].status \in {JobStatusPending, JobStatusRetrying}
                        /\ js[i].retryCount < js[i].maxRetries}
\* the l oldest of them
OldestEligible(js, l) ==
    {i \in EligibleRows(js) : Cardinality({j \in EligibleRows(js) : j < i}) < l}

\* C19: getPendingJobs(limit) returns exactly the rows with status pending
\* or retrying and retryCount < maxRetries, oldest first, truncated to the
\* first limit of them; never a row with retryCount >= maxRetries or with
\* status processing, completed or failed.
C19_GetPendingJobs ==
    \A w \in Workers : pc[w] = "loop" =>
       LET r == batch[w]
           rows == OldestEligible(jobs, reqLimit)
       IN /\ Len(r) = Cardinality(rows)
          /\ Len(r) <= reqLimit
          /\ \A i \in rows : r[Cardinality({j \in rows : j < i}) + 1] = jobs[i]
          /\ \A k \in 1..Len(r) :
                /\ r[k].retryCount < r[k].maxRetries
                /\ r[k].status \notin {JobStatusProcessing, JobStatusCompleted, JobStatusFailed}

\* C19 witness: a call with limit 2 on a table of three rows, all pending or
\* retrying, one of them with its retries used up, returned the two others.
C19_Witness ==
    /\ pc[1] = "loop"
    /\ reqLimit = 2
    /\ Len(jobs) = 3
    /\ jobs[1].status = JobStatusRetrying /\ jobs[1].retryCount = DefaultMaxRetries
    /\ jobs[2].status = JobStatusRetrying /\ jobs[2].retryCount < DefaultMaxRetries
    /\ jobs[3].status = JobStatusPending /\ jobs[3].retryCount = 0
    /\ batch[1] = <<jobs[2], jobs[3]>>

\* no two Identity Records of the table ds share a did or a userHash
UniqueDIDs(ds) ==
    \A i \in 1..Len(ds) : \A j \in 1..Len(ds) :
       i # j => ds[i].did # ds[j].did /\ ds[i].userHash # ds[j].userHash

C21_UpdateStatusNotFound ==
    (ucall.id # 0 /\ ucall.id \notin 1..Len(dids)) => ucall.err # NoErr

\* message i was delivered to the callback in this step
DeliveredNow(i) ==
    /\ i \in 1..Len(stream)
    /\ stream'[i].deliveries = stream[i].deliveries + 1

\* C22: every delivery to a SubscribeToJobs handler is acknowledged exactly
\* when the handler returned success and negatively acknowledged exactly when
\* the payload could not be decoded or the handler returned an error, never
\* both and never neither (a negatively acknowledged message stays owed a
\* delivery), and no message is delivered more than 3 times in total.
C22_AckNakAndAtMostThreeDeliveries ==
    [][\A i \in 1..MaxStream :
         DeliveredNow(i) =>
            LET m == stream'[i]
            IN /\ m.last.reply \in {ReplyAck, ReplyNak}
               /\ (m.last.reply = ReplyAck) <=> (m.last.outcome = "success")
               /\ (m.last.reply = ReplyNak) <=>
                     (m.last.outcome \in {"decode error", "handler error"})
               /\ m.deliveries <= MaxDeliver]_vars

\* SubscribeToJobs has been called for job type t
SubscribeCalled(t) == subres[t] # NotCalled

\* C23: subscribing for two different job types registers a durable consumer
\* for each of them, and a handler receives only the messages published for
\* its own job type.
C23_ConsumerPerJobType ==
    /\ \A t1, t2 \in JobTypes :
         (t1 # t2 /\ SubscribeCalled(t1) /\ SubscribeCalled(t2)) =>
            (subres[t1] = NoErr /\ subres[t2] = NoErr /\ {t1, t2} \subseteq subs)
    /\ \A i \in 1..Len(stream) :
         stream[i].deliveries > 0 => stream[i].jobType \in subs

\* the loop of worker w's run moves on from its current job in this step
MovesOn(w) ==
    /\ batch[w] # <<>>
    /\ pc'[w] = "loop"
    /\ batch'[w] = Tail(batch[w])

\* C24: within one ProcessBlockchainQueue run, an error processJob returned
\* for a job is recorded on that job's row (status failed, the error text),
\* the run goes on with the remaining jobs of the batch, and the run ends
\* only when the batch is through (it returns an error only when
\* GetPendingJobs fails, before any job).
C24_FailureIsolatedAndRecorded ==
    [][\A w \in Workers :
         /\ RecordsFailure(w) =>
              /\ JobIn(jobs', CurJob(w).id).status = JobStatusFailed
              /\ JobIn(jobs', CurJob(w).id).error = jobErr[w]
              /\ MovesOn(w)
         /\ (pc[w] = "markFailed" /\ pc'[w] # pc[w]) => RecordsFailure(w)]_vars

\* worker w's run obtains its batch in this step
RunStarts(w) == pc[w] = "idle" /\ pc'[w] = "loop"
\* the outcome of a job's processing stands on its row
OutcomeRecorded(job) == job.status \in {JobStatusCompleted, JobStatusFailed}

\* C25: one ProcessBlockchainQueue run takes at most 10 jobs and submits for
\* no other job, and processes them one after another: it goes on to the next
\* job only when the outcome of the current one has been recorded.
C25_AtMostTenSequential ==
    [][\A w \in Workers :
         /\ RunStarts(w) => Len(batch'[w]) <= BatchLimit
         /\ Len(batch'[w]) <= Len(batch[w]) \/ RunStarts(w)
         /\ MovesOn(w) => OutcomeRecorded(JobIn(jobs', CurJob(w).id))]_vars

\* C26: whenever per-job processing ends in failure (processJob returned an
\* error and the job is marked failed), the Identity Record the job refers to
\* is as it was before the attempt: status pending, chainTx empty.
C26_FailedJobLeavesRecordPending ==
    [][\A w \in Workers :
         (RecordsFailure(w) /\ JobIn(jobs', CurJob(w).id).status = JobStatusFailed) =>
            /\ dids'[CurJob(w).didID].status = DIDStatusPending
            /\ dids'[CurJob(w).didID].blockchainTx = NoTx]_vars

\* the job types processJob's switch has a case for
DispatchedJobTypes == {JobTypeRegisterDID, JobTypeUpdateDID}

\* C30: processing a job of type revoke_did (of any type but register_did
\* and update_did) invokes no Ledger Client operation; the job ends with
\* status failed and the 'unknown job type' error, and its Identity Record
\* is unchanged.
C30_UnknownJobTypeFails ==
    [][\A w \in Workers :
         (MovesOn(w) /\ CurJob(w).jobType \notin DispatchedJobTypes) =>
            /\ \A t \in 1..Len(txs') : txs'[t].did # CurJob(w).did
            /\ JobIn(jobs', CurJob(w).id).status = JobStatusFailed
            /\ JobIn(jobs', CurJob(w).id).error = ErrUnknownJobType
            /\ dids'[CurJob(w).didID] = PendingDIDs(Len(dids))[CurJob(w).didID]]_vars

\* C27: the key material CreateDID persists on an Identity Record, its
\* public_key field, is the public key of the pair generated for it; the
\* generated private key is never written to the Identity Store.
C27_PublicKeyStored ==
    \A i \in 1..Len(dids) :
        /\ dids[i].publicKey = KeyPair(dids[i].userHash).publicKey
        /\ dids[i].publicKey # KeyPair(dids[i].userHash).privateKey

\* GenerateDID has returned
Generated == gen.did # <<>>

InsertsRecord == Len(dids') = Len(dids) + 1

\* C29: when publishing the job fails, or the service runs in local mode
\* without a queue client, CreateDID still returns success, and the Identity
\* Record and the Job Ledger row are persisted with status pending.
C29_CreateWithoutQueue ==
    [][(InsertsRecord /\ published' = published) =>
          /\ cresp' = MsgCreated
          /\ dids'[Len(dids')].status = DIDStatusPending
          /\ \E i \in 1..Len(jobs') :
               /\ jobs'[i].didID = Len(dids')
               /\ jobs'[i].status = JobStatusPending]_vars

\* worker w's run invokes the Ledger Client in this step: it reads the
\* nonce, broadcasts, or gets the error of one of the two
LedgerInvoked(w) ==
    \/ nonce'[w] # nonce[w]
    \/ txRef'[w] # txRef[w] /\ txRef'[w] # NoTx
    \/ jobErr'[w] # jobErr[w] /\ jobErr'[w] \in {ErrGetNonce, ErrSendTransaction}

\* C31: processJob sets the job's row to processing before it invokes the
\* Ledger Client; if that status update fails, no Ledger Client operation is
\* invoked for the job in that attempt.
C31_ProcessingBeforeLedger ==
    [][\A w \in Workers :
         /\ StartsJob(w) => JobIn(jobs', CurJob(w).id).status = JobStatusProcessing
         /\ LedgerInvoked(w) =>
               /\ pc[w] \in {"dispatch", "send"}
               /\ JobIn(jobs, CurJob(w).id).status = JobStatusProcessing
         /\ (pc[w] = "markFailed" /\ jobErr[w] = ErrUpdateJobStatus) =>
               /\ ~LedgerInvoked(w)
               /\ SubmittedFor(CurJob(w)) = 0
               /\ pc'[w] # pc[w] => MovesOn(w)]_vars

C31_Witness ==
    /\ pc[Ticker] = "markFailed"
    /\ jobErr[Ticker] = ErrUpdateJobStatus
    /\ LedgerCall(CurJob(Ticker).jobType) # ""
    /\ blockchain = EthereumClient
    /\ \E t \in 1..Len(txs) : txs[t].did # CurJob(Ticker).did

\* C32: in every reachable state a Job Ledger row with status completed
\* refers to an Identity Record whose status is active and whose chainTx is
\* not empty.
C32_CompletedMeansActive ==
    \A i \in 1..Len(jobs) :
        jobs[i].status = JobStatusCompleted =>
            /\ dids[jobs[i].didID].status = DIDStatusActive
            /\ dids[jobs[i].didID].blockchainTx # NoTx

\* C35: in every reachable state an Identity Record whose status is active
\* has a chainTx that is not empty.
C35_ActiveHasChainTx ==
    \A i \in 1..Len(dids) :
        dids[i].status = DIDStatusActive => dids[i].blockchainTx # NoTx

\* VerifyDID's self-healing write is made in this step
VerifyWrites == vpc = "update" /\ vpc' = "idle"

\* C37: under any interleaving of VerifyDID with processJob on the same DID,
\* a chainTx the worker's update wrote to the Identity Record is never
\* cleared or replaced by VerifyDID afterwards: VerifyDID's self-healing
\* write changes the status (and updatedAt) only.
C37_VerifyKeepsChainTx ==
    [][VerifyWrites =>
          \A i \in 1..Len(dids) :
              /\ dids[i].blockchainTx # NoTx =>
                    dids'[i].blockchainTx = dids[i].blockchainTx
              /\ dids'[i] = [dids[i] EXCEPT !.status = dids'[i].status]]_vars

\* worker w is inside EthereumClient.sendTransaction
InSendTransaction(w) == pc[w] \in {"send", "await"}

\* C33: every call of sendTransaction terminates: after the broadcast the
\* confirmation poll ends when a receipt is obtained or when the timeout
\* expires (with the timeout error), also when the chain never returns a
\* receipt.
C33_SendTransactionTerminates ==
    \A w \in Workers : InSendTransaction(w) ~> ~InSendTransaction(w)

C33_Witness ==
    /\ pc[Ticker] = "markFailed"
    /\ jobErr[Ticker] = ErrWaitTimeout
    /\ txs # <<>>
    /\ \A t \in 1..Len(txs) : txs[t].receipt = "none"

\* C34: the function the client encodes for registerDID / updateDID (name and
\* parameter list) is one the DIDRegistry exposes, so the client's first
\* registration of a fresh (userHash, did), sent from the authorised account,
\* is not reverted and registers the record.
FreshPair(h, d) ==
    /\ ~didRecords[h].registered
    /\ d # EmptyDID
    /\ didToUserHash[d] = ZeroHash
C34_ClientCallAccepted ==
    [][\A h \in RegHashes, d \in RegDIDs :
         (ClientCall("registerDID", h, d) /\ FreshPair(h, d)) =>
            /\ ClientFunction("registerDID") \in ContractFunctions
            /\ ClientFunction("updateDID") \in ContractFunctions
            /\ ~callres'.reverted
            /\ didRecords'[h] = NewDIDRecord(d)]_vars

\* C40: in every state of the DIDRegistry, each registered, non-revoked
\* userHash h is the one its DID maps to, and verifyDID of that DID returns
\* (true, h).
C40_MappingConsistent ==
    \A h \in RegHashes :
        (didRecords[h].registered /\ ~didRecords[h].isRevoked) =>
            /\ didToUserHash[didRecords[h].did] = h
            /\ verifyDID(didRecords[h].did) = <<TRUE, h>>

\* C36: every job message CreateDID has published carries the id of a row of
\* the Job Ledger (rows are never deleted, so a row present at publishing
\* time is present in every later state).
C36_PublishedJobExists == published \subseteq JobIDs

\* C39: no step of VerifyDID (which the status query runs with an empty user
\* hash; each of its steps that writes moves vpc) changes a stored status revoked to anything else, whatever the
\* chain reported.
C39_RevokedStaysRevoked ==
    [][vpc' # vpc =>
         \A i \in 1..Len(dids) :
             dids[i].status = DIDStatusRevoked => dids'[i].status = DIDStatusRevoked]_vars

\* C38: with a fair poller, every Job Ledger row that is marked processing
\* eventually has another status.
C38_ProcessingEventuallyLeft ==
    \A i \in 1..(BatchLimit + 1) :
        (i <= Len(jobs) /\ jobs[i].status = JobStatusProcessing)
            ~> (i <= Len(jobs) /\ jobs[i].status # JobStatusProcessing)

====
